---- MODULE Spec2Model ----
(***************************************************************************)
(* courtlistener-mcp: the request pipeline of src/src/index.ts.            *)
(*                                                                         *)
(*   - RateLimiter (sliding window per client identity)                    *)
(*   - makeCourtListenerRequest (credential gate, rate gate, sanitizing,   *)
(*     one bounded-time GET, uniform null on failure)                      *)
(*                                                                         *)
(* Strings are sequences of one-character strings, so that substring,     *)
(* regular-expression tests and template literals are computed.            *)
(***************************************************************************)
EXTENDS Integers, Sequences, FiniteSets, TLC

VARIABLES
    now,          \* the reading of Date.now()
    maxRequests,  \* RateLimiter.maxRequests (constructor argument)
    windowMs,     \* RateLimiter.windowMs (constructor argument)
    requests,     \* RateLimiter.requests: Map<string, number[]>
    calls,        \* every isAllowed call so far: identifier, time, list before, result,
                  \* and the invocation that made it (0: a direct call)
    inv,          \* the invocations of makeCourtListenerRequest, one record each
    app           \* the last direct call of a utility function: its name, its
                  \* argument, what it returned, and how many times in a row the
                  \* result was fed back to it

vars == <<now, maxRequests, windowMs, requests, calls, inv, app>>

\* no utility function called yet
NoApplication == [fn |-> "none", arg |-> <<>>, out |-> <<>>, pass |-> 0]

----------------------------------------------------------------------------
(* Bounds of the model *)

MaxTime == 2          \* the clock runs over 0..MaxTime
MaxCalls == 4         \* isAllowed calls on one limiter
MaxRequestsArg == 2   \* maxRequests is drawn from 1..MaxRequestsArg
MaxWindowArg == 2     \* windowMs is drawn from 1..MaxWindowArg
MaxInvocations == 2   \* invocations of makeCourtListenerRequest
MaxPieces == 3        \* pieces in a row in an input of sanitizeString

----------------------------------------------------------------------------
(* Strings: characters, classes of the regular expressions, replace, substring *)

UpperLetters ==
    <<"A", "B", "C", "D", "E", "F", "G", "H", "I", "J", "K", "L", "M",
      "N", "O", "P", "Q", "R", "S", "T", "U", "V", "W", "X", "Y", "Z">>

LowerLetters ==
    <<"a", "b", "c", "d", "e", "f", "g", "h", "i", "j", "k", "l", "m",
      "n", "o", "p", "q", "r", "s", "t", "u", "v", "w", "x", "y", "z">>

Digits == {"0", "1", "2", "3", "4", "5", "6", "7", "8", "9"}

Range(f) == {f[x] : x \in DOMAIN f}

MinOf(S) == CHOOSE x \in S : \A y \in S : x <= y

\* the canonical form the i flag compares: an ASCII capital as its small letter
Lower(c) ==
    IF c \in Range(UpperLetters)
    THEN LowerLetters[CHOOSE k \in DOMAIN UpperLetters : UpperLetters[k] = c]
    ELSE c

\* \d
DigitClass == Digits

\* \w
WordClass == Range(UpperLetters) \cup Range(LowerLetters) \cup Digits \cup {"_"}

\* \s (the white space the inputs use)
SpaceClass == {" ", "\t", "\n", "\r"}

\* [a-f0-9]
IsLowerHex(c) == c \in Digits \cup {"a", "b", "c", "d", "e", "f"}

\* the first position >= from whose character is not in the class, Len(s) + 1 if none:
\* where a greedy run of the class that starts at from ends
RunEnd(s, from, class) ==
    MinOf({k \in from..Len(s) : s[k] \notin class} \cup {Len(s) + 1})

\* String.prototype.substring(0, n)
Substring0(s, n) == SubSeq(s, 1, IF Len(s) < n THEN Len(s) ELSE n)

\* /lit/i at position i (lit in small letters): the position after the match,
\* 0 when none starts at i
LiteralEnd(s, i, lit) ==
    IF /\ i + Len(lit) - 1 <= Len(s)
       /\ \A j \in 1..Len(lit) : Lower(s[i + j - 1]) = lit[j]
    THEN i + Len(lit)
    ELSE 0

\* /lit\d*/i at position i
LiteralDigitsEnd(s, i, lit) ==
    IF LiteralEnd(s, i, lit) = 0
    THEN 0
    ELSE RunEnd(s, LiteralEnd(s, i, lit), DigitClass)

\* /on\w+\s*=/i at position i. The greedy \w+ takes the whole run of word
\* characters and \s* the whole run of white space; giving characters back never
\* helps, because the next character would then be a word or space character, not =.
EventHandlerEnd(s, i) ==
    IF /\ i + 1 <= Len(s)
       /\ Lower(s[i]) = "o"
       /\ Lower(s[i + 1]) = "n"
    THEN LET w == RunEnd(s, i + 2, WordClass)
             sp == RunEnd(s, w, SpaceClass)
         IN  IF w > i + 2 /\ sp <= Len(s) /\ s[sp] = "="
             THEN sp + 1
             ELSE 0
    ELSE 0

\* the regular expressions of sanitizeString
Literal(lit) == [kind |-> "literal", lit |-> lit]
LiteralDigits(lit) == [kind |-> "literalDigits", lit |-> lit]
EventHandler == [kind |-> "eventHandler", lit |-> <<>>]

\* the position after the match of re that starts at i, 0 when none starts there
MatchEnd(s, i, re) ==
    CASE re.kind = "literal" -> LiteralEnd(s, i, re.lit)
      [] re.kind = "literalDigits" -> LiteralDigitsEnd(s, i, re.lit)
      [] OTHER -> EventHandlerEnd(s, i)

\* the scan of replace: from is where it resumes, acc what it has produced
RECURSIVE ReplaceFrom(_, _, _, _, _, _)
ReplaceFrom(s, starts, re, rep, from, acc) ==
    LET rest == {i \in starts : i >= from}
    IN  IF rest = {}
        THEN acc \o SubSeq(s, from, Len(s))
        ELSE ReplaceFrom(s, starts, re, rep, MatchEnd(s, MinOf(rest), re),
                         acc \o SubSeq(s, from, MinOf(rest) - 1) \o rep)

\* String.prototype.replace(/re/g, rep): matches are taken leftmost first, the
\* scan resuming after each match; rep is not scanned again
ReplaceAll(s, re, rep) ==
    ReplaceFrom(s, {i \in 1..Len(s) : MatchEnd(s, i, re) > 0}, re, rep, 1, <<>>)

----------------------------------------------------------------------------
(* Security utilities *)

MAX_SANITIZED_LENGTH == 1000
TOKEN_LENGTH == 40
CLIENT_ID_PREFIX_LENGTH == 8

DangerousChars == {"<", ">", "\"", "'", "&"}

str_javascript == <<"j", "a", "v", "a", "s", "c", "r", "i", "p", "t", ":">>
str_data == <<"d", "a", "t", "a", ":">>
str_vbscript == <<"v", "b", "s", "c", "r", "i", "p", "t", ":">>
str_password == <<"p", "a", "s", "s", "w", "o", "r", "d">>
str_secret == <<"s", "e", "c", "r", "e", "t">>
str_token == <<"t", "o", "k", "e", "n">>
str_key == <<"k", "e", "y">>
str_REDACTED == <<"[", "R", "E", "D", "A", "C", "T", "E", "D", "]">>

\* a first replace whose class lacks the ampersand: /[<>"']/g
sanitizeString_keepAmpersand(input) ==
    LET s1 == SelectSeq(input, LAMBDA c : c \notin DangerousChars \ {"&"})
        s2 == ReplaceAll(s1, Literal(str_javascript), <<>>)
        s3 == ReplaceAll(s2, Literal(str_data), <<>>)
        s4 == ReplaceAll(s3, Literal(str_vbscript), <<>>)
        s5 == ReplaceAll(s4, EventHandler, <<>>)
        s6 == ReplaceAll(s5, LiteralDigits(str_password), str_REDACTED)
        s7 == ReplaceAll(s6, LiteralDigits(str_secret), str_REDACTED)
        s8 == ReplaceAll(s7, LiteralDigits(str_token), str_REDACTED)
        s9 == ReplaceAll(s8, LiteralDigits(str_key), str_REDACTED)
    IN  Substring0(s9, MAX_SANITIZED_LENGTH)

\* a truncation one character short: substring(0, 999)
sanitizeString_truncateShort(input) ==
    LET s1 == SelectSeq(input, LAMBDA c : c \notin DangerousChars)
        s2 == ReplaceAll(s1, Literal(str_javascript), <<>>)
        s3 == ReplaceAll(s2, Literal(str_data), <<>>)
        s4 == ReplaceAll(s3, Literal(str_vbscript), <<>>)
        s5 == ReplaceAll(s4, EventHandler, <<>>)
        s6 == ReplaceAll(s5, LiteralDigits(str_password), str_REDACTED)
        s7 == ReplaceAll(s6, LiteralDigits(str_secret), str_REDACTED)
        s8 == ReplaceAll(s7, LiteralDigits(str_token), str_REDACTED)
        s9 == ReplaceAll(s8, LiteralDigits(str_key), str_REDACTED)
    IN  Substring0(s9, MAX_SANITIZED_LENGTH - 1)

\* a truncation made first, before anything is removed
sanitizeString_truncateFirst(input) ==
    LET s0 == Substring0(input, MAX_SANITIZED_LENGTH)
        s1 == SelectSeq(s0, LAMBDA c : c \notin DangerousChars)
        s2 == ReplaceAll(s1, Literal(str_javascript), <<>>)
        s3 == ReplaceAll(s2, Literal(str_data), <<>>)
        s4 == ReplaceAll(s3, Literal(str_vbscript), <<>>)
        s5 == ReplaceAll(s4, EventHandler, <<>>)
        s6 == ReplaceAll(s5, LiteralDigits(str_password), str_REDACTED)
        s7 == ReplaceAll(s6, LiteralDigits(str_secret), str_REDACTED)
        s8 == ReplaceAll(s7, LiteralDigits(str_token), str_REDACTED)
    IN  ReplaceAll(s8, LiteralDigits(str_key), str_REDACTED)

\* sanitizeString
sanitizeString(input) ==
    LET s1 == SelectSeq(input, LAMBDA c : c \notin DangerousChars)
        s2 == ReplaceAll(s1, Literal(str_javascript), <<>>)
        s3 == ReplaceAll(s2, Literal(str_data), <<>>)
        s4 == ReplaceAll(s3, Literal(str_vbscript), <<>>)
        s5 == ReplaceAll(s4, EventHandler, <<>>)
        s6 == ReplaceAll(s5, LiteralDigits(str_password), str_REDACTED)
        s7 == ReplaceAll(s6, LiteralDigits(str_secret), str_REDACTED)
        s8 == ReplaceAll(s7, LiteralDigits(str_token), str_REDACTED)
        s9 == ReplaceAll(s8, LiteralDigits(str_key), str_REDACTED)
    IN  Substring0(s9, MAX_SANITIZED_LENGTH)

----------------------------------------------------------------------------
(* JavaScript values: t is the typeof/shape, s the text of a string, n the value of a
   number or the length of an array, b the value of a boolean, nan marks NaN *)

JSUndefined == [t |-> "undefined", s |-> <<>>, n |-> 0, b |-> FALSE, nan |-> FALSE]
JSNull == [t |-> "null", s |-> <<>>, n |-> 0, b |-> FALSE, nan |-> FALSE]
JSString(str) == [t |-> "string", s |-> str, n |-> 0, b |-> FALSE, nan |-> FALSE]
JSNumber(num) == [t |-> "number", s |-> <<>>, n |-> num, b |-> FALSE, nan |-> FALSE]
JSNaN == [t |-> "number", s |-> <<>>, n |-> 0, b |-> FALSE, nan |-> TRUE]
JSBoolean(bool) == [t |-> "boolean", s |-> <<>>, n |-> 0, b |-> bool, nan |-> FALSE]
JSArray(len) == [t |-> "array", s |-> <<>>, n |-> len, b |-> FALSE, nan |-> FALSE]
JSObject == [t |-> "object", s |-> <<>>, n |-> 0, b |-> FALSE, nan |-> FALSE]

\* ToBoolean: what if (v), v && ..., !v test
Truthy(v) ==
    CASE v.t = "undefined" -> FALSE
      [] v.t = "null" -> FALSE
      [] v.t = "string" -> v.s # <<>>
      [] v.t = "number" -> ~v.nan /\ v.n # 0
      [] v.t = "boolean" -> v.b
      [] OTHER -> TRUE

DigitChars == <<"0", "1", "2", "3", "4", "5", "6", "7", "8", "9">>

\* the decimal digits of a natural number
RECURSIVE NatToString(_)
NatToString(num) ==
    IF num < 10
    THEN <<DigitChars[num + 1]>>
    ELSE Append(NatToString(num \div 10), DigitChars[(num % 10) + 1])

\* Number.prototype.toString() of an integer or NaN, Boolean.prototype.toString()
JSToString(v) ==
    CASE v.t = "number" /\ v.nan -> <<"N", "a", "N">>
      [] v.t = "number" /\ v.n < 0 -> <<"-">> \o NatToString(0 - v.n)
      [] v.t = "number" -> NatToString(v.n)
      [] v.t = "boolean" /\ v.b -> <<"t", "r", "u", "e">>
      [] v.t = "boolean" -> <<"f", "a", "l", "s", "e">>
      [] OTHER -> v.s

\* a test of the value's truth, if (value), in place of the tests for undefined
\* and null
validateAndSanitizeParams_truthy(params) ==
    LET kept == SelectSeq(params, LAMBDA e : /\ Truthy(e.value)
                                             /\ e.value.t \in {"string", "number", "boolean"})
    IN  [k \in DOMAIN kept |->
            [key |-> kept[k].key,
             value |-> IF kept[k].value.t = "string"
                       THEN sanitizeString(kept[k].value.s)
                       ELSE JSToString(kept[k].value)]]

\* validateAndSanitizeParams: params and the result are the entries of the object,
\* in insertion order; keys are distinct
validateAndSanitizeParams(params) ==
    LET kept == SelectSeq(params, LAMBDA e : /\ e.value.t # "undefined"
                                             /\ e.value.t # "null"
                                             /\ e.value.t \in {"string", "number", "boolean"})
    IN  [k \in DOMAIN kept |->
            [key |-> kept[k].key,
             value |-> IF kept[k].value.t = "string"
                       THEN sanitizeString(kept[k].value.s)
                       ELSE JSToString(kept[k].value)]]

\* a pattern that ignores case: /^[a-f0-9]{40}$/i
validateApiToken_ignoreCase(token) ==
    IF ~Truthy(token)
    THEN TRUE
    ELSE /\ Len(token.s) = TOKEN_LENGTH
         /\ \A k \in DOMAIN token.s : IsLowerHex(Lower(token.s[k]))

\* validateApiToken
validateApiToken(token) ==
    IF ~Truthy(token)
    THEN TRUE
    ELSE /\ Len(token.s) = TOKEN_LENGTH
         /\ \A k \in DOMAIN token.s : IsLowerHex(token.s[k])

----------------------------------------------------------------------------
(* Response data: t is the shape of the parsed body; results, count, next and
   previous are its properties of those names (JSUndefined when absent) *)

Data(shape, results, count, next, previous) ==
    [t |-> shape, results |-> results, count |-> count, next |-> next,
     previous |-> previous]

\* the value null
NullValue == Data("null", JSUndefined, JSUndefined, JSUndefined, JSUndefined)

\* a count test without the test for a negative number
normalizeApiResponse_keepNegative(data) ==
    IF /\ data.t = "object"
       /\ Truthy(data.results)
       /\ data.results.t = "array"
    THEN [data EXCEPT
            !.count = IF data.count.t # "number" \/ data.count.nan
                      THEN JSNumber(data.results.n)
                      ELSE data.count,
            !.next = IF data.next.t # "null" /\ data.next.t # "string"
                     THEN JSNull
                     ELSE data.next,
            !.previous = IF data.previous.t # "null" /\ data.previous.t # "string"
                         THEN JSNull
                         ELSE data.previous]
    ELSE data

\* normalizeApiResponse
normalizeApiResponse(data) ==
    IF /\ data.t = "object"
       /\ Truthy(data.results)
       /\ data.results.t = "array"
    THEN [data EXCEPT
            !.count = IF data.count.t # "number" \/ data.count.nan \/ data.count.n < 0
                      THEN JSNumber(data.results.n)
                      ELSE data.count,
            !.next = IF data.next.t # "null" /\ data.next.t # "string"
                     THEN JSNull
                     ELSE data.next,
            !.previous = IF data.previous.t # "null" /\ data.previous.t # "string"
                         THEN JSNull
                         ELSE data.previous]
    ELSE data

----------------------------------------------------------------------------
(* RateLimiter *)

client1 == <<"c", "l", "i", "e", "n", "t", "1">>
client2 == <<"c", "l", "i", "e", "n", "t", "2">>

TestClients == {client1, client2}

\* this.requests.get(identifier), [] when the key is absent
TimesOf(reqs, identifier) ==
    IF identifier \in DOMAIN reqs THEN reqs[identifier] ELSE <<>>

\* Evict with the loop never entered: nothing is ever removed
Evict_none(requestTimes, windowStart) == requestTimes

\* while (requestTimes.length > 0 && requestTimes[0] < windowStart) requestTimes.shift()
RECURSIVE Evict(_, _)
Evict(requestTimes, windowStart) ==
    IF Len(requestTimes) > 0 /\ requestTimes[1] < windowStart
    THEN Evict(Tail(requestTimes), windowStart)
    ELSE requestTimes

\* isAllowed with the limit test written > instead of >=
isAllowed_gt(reqs, identifier, t, maxR, winMs) ==
    LET withKey == IF identifier \in DOMAIN reqs THEN reqs ELSE reqs @@ (identifier :> <<>>)
        requestTimes == Evict(withKey[identifier], t - winMs)
    IN  IF Len(requestTimes) > maxR
        THEN [ret |-> FALSE, requests |-> [withKey EXCEPT ![identifier] = requestTimes]]
        ELSE [ret |-> TRUE,
              requests |-> [withKey EXCEPT ![identifier] = Append(requestTimes, t)]]

\* isAllowed counting the current call before the limit test
isAllowed_rejectEarly(reqs, identifier, t, maxR, winMs) ==
    LET withKey == IF identifier \in DOMAIN reqs THEN reqs ELSE reqs @@ (identifier :> <<>>)
        requestTimes == Evict(withKey[identifier], t - winMs)
    IN  IF Len(requestTimes) + 1 >= maxR
        THEN [ret |-> FALSE, requests |-> [withKey EXCEPT ![identifier] = requestTimes]]
        ELSE [ret |-> TRUE,
              requests |-> [withKey EXCEPT ![identifier] = Append(requestTimes, t)]]

\* isAllowed pushing the timestamp before the limit test, so a rejection is recorded too
isAllowed_recordRejected(reqs, identifier, t, maxR, winMs) ==
    LET withKey == IF identifier \in DOMAIN reqs THEN reqs ELSE reqs @@ (identifier :> <<>>)
        requestTimes == Evict(withKey[identifier], t - winMs)
    IN  [ret |-> Len(requestTimes) < maxR,
         requests |-> [withKey EXCEPT ![identifier] = Append(requestTimes, t)]]

\* isAllowed keeping one list for all identifiers
isAllowed_sharedKey(reqs, identifier, t, maxR, winMs) ==
    LET key == <<"*">>
        withKey == IF key \in DOMAIN reqs THEN reqs ELSE reqs @@ (key :> <<>>)
        requestTimes == Evict(withKey[key], t - winMs)
    IN  IF Len(requestTimes) >= maxR
        THEN [ret |-> FALSE, requests |-> [withKey EXCEPT ![key] = requestTimes]]
        ELSE [ret |-> TRUE,
              requests |-> [withKey EXCEPT ![key] = Append(requestTimes, t)]]

\* isAllowed that pushes the timestamp of an admitted call twice
isAllowed_pushTwice(reqs, identifier, t, maxR, winMs) ==
    LET windowStart == t - winMs
        withKey == IF identifier \in DOMAIN reqs
                   THEN reqs
                   ELSE reqs @@ (identifier :> <<>>)
        requestTimes == Evict(withKey[identifier], windowStart)
    IN  IF Len(requestTimes) >= maxR
        THEN [ret |-> FALSE,
              requests |-> [withKey EXCEPT ![identifier] = requestTimes]]
        ELSE [ret |-> TRUE,
              requests |-> [withKey EXCEPT
                              ![identifier] = Append(Append(requestTimes, t), t)]]

\* isAllowed that puts the timestamp at the head of the list: unshift(now)
isAllowed_unshift(reqs, identifier, t, maxR, winMs) ==
    LET windowStart == t - winMs
        withKey == IF identifier \in DOMAIN reqs
                   THEN reqs
                   ELSE reqs @@ (identifier :> <<>>)
        requestTimes == Evict(withKey[identifier], windowStart)
    IN  IF Len(requestTimes) >= maxR
        THEN [ret |-> FALSE,
              requests |-> [withKey EXCEPT ![identifier] = requestTimes]]
        ELSE [ret |-> TRUE,
              requests |-> [withKey EXCEPT ![identifier] = <<t>> \o requestTimes]]

\* RateLimiter.isAllowed: the result and the map it leaves
isAllowed(reqs, identifier, t, maxR, winMs) ==
    LET windowStart == t - winMs
        withKey == IF identifier \in DOMAIN reqs
                   THEN reqs
                   ELSE reqs @@ (identifier :> <<>>)
        requestTimes == Evict(withKey[identifier], windowStart)
    IN  IF Len(requestTimes) >= maxR
        THEN [ret |-> FALSE,
              requests |-> [withKey EXCEPT ![identifier] = requestTimes]]
        ELSE [ret |-> TRUE,
              requests |-> [withKey EXCEPT ![identifier] = Append(requestTimes, t)]]

\* new RateLimiter(maxRequests, windowMs)
InitRL ==
    /\ now = 0
    /\ maxRequests \in 1..MaxRequestsArg
    /\ windowMs \in 1..MaxWindowArg
    /\ requests = <<>>
    /\ calls = <<>>
    /\ inv = <<>>
    /\ app = NoApplication

\* Date.now() advances
Tick ==
    /\ now < MaxTime
    /\ now' = now + 1
    /\ UNCHANGED <<maxRequests, windowMs, requests, calls, inv, app>>

\* one call rateLimiter.isAllowed(identifier)
IsAllowedCall(identifier) ==
    /\ Len(calls) < MaxCalls
    /\ LET r == isAllowed(requests, identifier, now, maxRequests, windowMs)
       IN  /\ requests' = r.requests
           /\ calls' = Append(calls, [id |-> identifier, t |-> now,
                                      before |-> TimesOf(requests, identifier),
                                      ret |-> r.ret, by |-> 0])
    /\ UNCHANGED <<now, maxRequests, windowMs, inv, app>>

NextRL ==
    \/ Tick
    \/ \E identifier \in TestClients : IsAllowedCall(identifier)

SpecRL == InitRL /\ [][NextRL]_vars

----------------------------------------------------------------------------
(* makeCourtListenerRequest *)

\* The configuration of the module's rateLimiter (the environment sets it; the
\* values are small so that the limit and the end of the window are reached).
RATE_LIMIT_REQUESTS == 1
RATE_LIMIT_WINDOW_MS == 1

USER_AGENT == <<"C", "o", "u", "r", "t", "L", "i", "s", "t", "e", "n", "e", "r", "-", "M", "C", "P", "-", "S", "e", "r", "v", "e", "r", "/", "1", ".", "0">>

Slots == 1..MaxInvocations

Pending == [state |-> "pending", value |-> NullValue]
Fulfilled(value) == [state |-> "fulfilled", value |-> value]
Rejected == [state |-> "rejected", value |-> NullValue]

\* what a tool handler returns: { isError, content: [{ type: "text", text }] }
NoResponse == [returned |-> FALSE, isError |-> FALSE, text |-> ""]
ToolResult(isError, text) == [returned |-> TRUE, isError |-> isError, text |-> text]

NoArgs == [endpoint |-> <<>>, params |-> <<>>, authToken |-> JSUndefined]
NoRequest == [path |-> <<>>, query |-> <<>>, headers |-> <<>>]

\* an invocation not yet made
\*   pc       where it stands: idle, awaitFetch, awaitJson, done
\*   args     endpoint, params, authToken
\*   fetches  the calls of fetch() it has made
\*   request  what the last fetch() was given
\*   timer    the setTimeout of the abort: none, armed, cleared, fired
\*   result   the promise it returned
\*   log      its console.error lines
\*   gate     the index in calls of its isAllowed call, 0 if it made none
\*   cause    what the network did to it
\*   tool     the tool whose handler made it, "none" for a direct call
\*   caller   the auth_token the tool was called with
\*   toolGate the index in calls of the handler's own isAllowed call, 0 if none
\*   response what the handler returned to the tool caller
\*   body     what response.json() resolved with, before normalizeApiResponse
IdleInvocation ==
    [pc |-> "idle", args |-> NoArgs, fetches |-> 0, request |-> NoRequest,
     timer |-> "none", result |-> Pending, log |-> <<>>, gate |-> 0,
     cause |-> "none", tool |-> "none", caller |-> JSUndefined, toolGate |-> 0,
     response |-> NoResponse, body |-> NullValue]

\* a key made of the whole credential
ClientId_wholeToken(authToken) ==
    IF Truthy(authToken)
    THEN <<"t", "o", "k", "e", "n", ":">> \o authToken.s
    ELSE <<"a", "n", "o", "n", "y", "m", "o", "u", "s">>

\* const clientId = authToken ? `token:${authToken.substring(0, 8)}` : 'anonymous'
ClientId(authToken) ==
    IF Truthy(authToken)
    THEN <<"t", "o", "k", "e", "n", ":">> \o Substring0(authToken.s, CLIENT_ID_PREFIX_LENGTH)
    ELSE <<"a", "n", "o", "n", "y", "m", "o", "u", "s">>

\* a query built of every sanitized parameter, the empty ones too
BuildQuery_all(sanitizedParams) == sanitizedParams

\* Object.entries(sanitizedParams).forEach(([key, value]) => { if (value) append })
BuildQuery(sanitizedParams) ==
    SelectSeq(sanitizedParams, LAMBDA e : e.value # <<>>)

\* headers with an Authorization entry whether or not there is a credential
BuildHeaders_always(authToken) ==
    <<[name |-> <<"U", "s", "e", "r", "-", "A", "g", "e", "n", "t">>, value |-> USER_AGENT],
      [name |-> <<"A", "c", "c", "e", "p", "t">>, value |-> <<"a", "p", "p", "l", "i", "c", "a", "t", "i", "o", "n", "/", "j", "s", "o", "n">>],
      [name |-> <<"A", "u", "t", "h", "o", "r", "i", "z", "a", "t", "i", "o", "n">>, value |-> <<"T", "o", "k", "e", "n", " ">> \o authToken.s]>>

\* the headers object
BuildHeaders(authToken) ==
    <<[name |-> <<"U", "s", "e", "r", "-", "A", "g", "e", "n", "t">>, value |-> USER_AGENT],
      [name |-> <<"A", "c", "c", "e", "p", "t">>, value |-> <<"a", "p", "p", "l", "i", "c", "a", "t", "i", "o", "n", "/", "j", "s", "o", "n">>]>>
    \o (IF Truthy(authToken)
        THEN <<[name |-> <<"A", "u", "t", "h", "o", "r", "i", "z", "a", "t", "i", "o", "n">>, value |-> <<"T", "o", "k", "e", "n", " ">> \o authToken.s]>>
        ELSE <<>>)

\* return null, after console.error(line)
ReturnNull(v, line) ==
    [v EXCEPT !.pc = "done", !.log = Append(@, line), !.result = Fulfilled(NullValue)]

\* a catch block that throws again what is not an abort
CatchHandler_rethrow(v, error) ==
    IF error.isError /\ error.name = "AbortError"
    THEN ReturnNull(v, "Request timeout")
    ELSE [v EXCEPT !.pc = "done", !.result = Rejected]

\* a catch block that tries the request once more after a network error
CatchHandler_retry(v, error) ==
    IF error.isError /\ error.name = "AbortError"
    THEN ReturnNull(v, "Request timeout")
    ELSE IF v.fetches < 2
    THEN [v EXCEPT !.pc = "awaitFetch", !.fetches = @ + 1,
                   !.log = Append(@, "Network error occurred")]
    ELSE ReturnNull(v, "Network error occurred")

\* the catch block: error is what was thrown
CatchHandler(v, error) ==
    IF error.isError
    THEN IF error.name = "AbortError"
         THEN ReturnNull(v, "Request timeout")
         ELSE ReturnNull(v, "Network error occurred")
    ELSE ReturnNull(v, "Unknown error occurred")

\* a start that logs the rate limit and goes on to fetch all the same
StartRequest_noRateGate(v, args, reqs, t, maxR, winMs) ==
    LET w == [v EXCEPT !.args = args]
    IN  IF Truthy(args.authToken) /\ ~validateApiToken(args.authToken)
        THEN [inv |-> ReturnNull(w, "Invalid API token format provided"),
              requests |-> reqs, called |-> FALSE, ret |-> FALSE]
        ELSE LET r == isAllowed(reqs, ClientId(args.authToken), t, maxR, winMs)
             IN  [inv |-> [w EXCEPT
                             !.pc = "awaitFetch",
                             !.fetches = @ + 1,
                             !.request =
                                 [path |-> args.endpoint,
                                  query |-> BuildQuery(
                                      validateAndSanitizeParams(args.params)),
                                  headers |-> BuildHeaders(args.authToken)],
                             !.timer = "armed"],
                  requests |-> r.requests, called |-> TRUE, ret |-> r.ret]

\* a start that asks the limiter first and tests the credential after
StartRequest_rateGateFirst(v, args, reqs, t, maxR, winMs) ==
    LET w == [v EXCEPT !.args = args]
        r == isAllowed(reqs, ClientId(args.authToken), t, maxR, winMs)
    IN  IF ~r.ret
        THEN [inv |-> ReturnNull(w, "Rate limit exceeded for client"),
              requests |-> r.requests, called |-> TRUE, ret |-> FALSE]
        ELSE IF Truthy(args.authToken) /\ ~validateApiToken(args.authToken)
        THEN [inv |-> ReturnNull(w, "Invalid API token format provided"),
              requests |-> r.requests, called |-> TRUE, ret |-> TRUE]
        ELSE [inv |-> [w EXCEPT
                         !.pc = "awaitFetch",
                         !.fetches = @ + 1,
                         !.request =
                             [path |-> args.endpoint,
                              query |-> BuildQuery(
                                  validateAndSanitizeParams(args.params)),
                              headers |-> BuildHeaders(args.authToken)],
                         !.timer = "armed"],
              requests |-> r.requests, called |-> TRUE, ret |-> TRUE]

\* The body of makeCourtListenerRequest up to its first await: the credential
\* gate, the rate gate, the URL, the headers, the timer and the fetch() call.
\* The result holds the invocation, the limiter's map, and whether isAllowed was
\* called and what it returned.
StartRequest(v, args, reqs, t, maxR, winMs) ==
    LET w == [v EXCEPT !.args = args]
    IN  IF Truthy(args.authToken) /\ ~validateApiToken(args.authToken)
        THEN [inv |-> ReturnNull(w, "Invalid API token format provided"),
              requests |-> reqs, called |-> FALSE, ret |-> FALSE]
        ELSE LET r == isAllowed(reqs, ClientId(args.authToken), t, maxR, winMs)
             IN  IF ~r.ret
                 THEN [inv |-> ReturnNull(w, "Rate limit exceeded for client"),
                       requests |-> r.requests, called |-> TRUE, ret |-> FALSE]
                 ELSE [inv |-> [w EXCEPT
                                  !.pc = "awaitFetch",
                                  !.fetches = @ + 1,
                                  !.request =
                                      [path |-> args.endpoint,
                                       query |-> BuildQuery(
                                           validateAndSanitizeParams(args.params)),
                                       headers |-> BuildHeaders(args.authToken)],
                                  !.timer = "armed"],
                       requests |-> r.requests, called |-> TRUE, ret |-> TRUE]

\* response.ok
ResponseOk(status) == status >= 200 /\ status <= 299

\* a status test that hands the upstream's status code to the caller
OnResponse_leakStatus(v, status) ==
    LET w == [v EXCEPT !.timer = "cleared"]
    IN  IF ~ResponseOk(status)
        THEN [w EXCEPT !.pc = "done",
                       !.result = Fulfilled(Data("object", JSUndefined, JSNumber(status),
                                                 JSUndefined, JSUndefined))]
        ELSE [w EXCEPT !.pc = "awaitJson"]

\* From the resolution of fetch() to the next await: clearTimeout, the status
\* test, and the call of response.json()
OnResponse(v, status) ==
    LET w == [v EXCEPT !.timer = "cleared"]
    IN  IF ~ResponseOk(status)
        THEN IF status = 401
             THEN ReturnNull(w, "Authentication failed - invalid API token")
             ELSE IF status = 429
             THEN ReturnNull(w, "Rate limited by CourtListener API")
             ELSE IF status >= 500
             THEN ReturnNull(w, "CourtListener API server error")
             ELSE ReturnNull(w, "CourtListener API request failed with status")
        ELSE [w EXCEPT !.pc = "awaitJson"]

\* From the resolution of response.json() to the return
OnBody(v, data) ==
    [v EXCEPT !.pc = "done", !.result = Fulfilled(normalizeApiResponse(data))]

----------------------------------------------------------------------------
(* The inputs and the upstream of the pipeline *)

tokenA == [k \in 1..TOKEN_LENGTH |-> "a"]
tokenInvalid == <<"i", "n", "v", "a", "l", "i", "d", "-", "t", "o", "k", "e", "n">>

paramsNone == <<>>
paramsMixed ==
    <<[key |-> <<"q">>, value |-> JSString(<<"a", "<", "b">>)],
      [key |-> <<"c", "o", "u", "r", "t">>, value |-> JSString(<<>>)],
      [key |-> <<"x">>, value |-> JSNull]>>

\* the calls made: without a credential, with a well-formed one, with a malformed one
InvocationArgs ==
    {[endpoint |-> <<"/", "d", "o", "c", "k", "e", "t", "s", "/">>, params |-> paramsMixed, authToken |-> JSUndefined],
     [endpoint |-> <<"/", "c", "o", "u", "r", "t", "s", "/">>, params |-> paramsNone, authToken |-> JSString(tokenA)],
     [endpoint |-> <<"/", "d", "o", "c", "k", "e", "t", "s", "/">>, params |-> paramsMixed, authToken |-> JSString(tokenInvalid)]}

Statuses == {200, 401, 404, 429, 500}

\* a list body whose count is a numeric string and whose next is a number
bodyList == Data("object", JSArray(2), JSString(<<"5">>), JSNumber(7), JSNull)
\* a single resource
bodyDetail == Data("object", JSUndefined, JSUndefined, JSUndefined, JSUndefined)

ResponseBodies == {bodyList, bodyDetail}

AbortError == [isError |-> TRUE, name |-> "AbortError"]
TypeError == [isError |-> TRUE, name |-> "TypeError"]
SyntaxError == [isError |-> TRUE, name |-> "SyntaxError"]

----------------------------------------------------------------------------
(* The pipeline as a state machine.  The code between two awaits runs without
   interruption, so each action is one such stretch. *)

Init ==
    /\ now = 0
    /\ maxRequests = RATE_LIMIT_REQUESTS
    /\ windowMs = RATE_LIMIT_WINDOW_MS
    /\ requests = <<>>
    /\ calls = <<>>
    /\ inv = [i \in Slots |-> IdleInvocation]
    /\ app = NoApplication

\* makeCourtListenerRequest(endpoint, params, authToken) is called
Invoke(i, args) ==
    /\ inv[i].pc = "idle"
    /\ \A j \in Slots : j < i => inv[j].pc # "idle"
    /\ LET r == StartRequest(inv[i], args, requests, now, maxRequests, windowMs)
       IN  /\ requests' = r.requests
           /\ calls' = IF r.called
                       THEN Append(calls,
                                [id |-> ClientId(args.authToken), t |-> now,
                                 before |-> TimesOf(requests, ClientId(args.authToken)),
                                 ret |-> r.ret, by |-> i])
                       ELSE calls
           /\ inv' = [inv EXCEPT ![i] =
                        [r.inv EXCEPT !.gate = IF r.called THEN Len(calls) + 1 ELSE 0]]
    /\ UNCHANGED <<now, maxRequests, windowMs, app>>

\* the upstream answers with a status line and headers: fetch() resolves
FetchResolve(i, status) ==
    /\ inv[i].pc = "awaitFetch"
    /\ inv' = [inv EXCEPT ![i] = [OnResponse(inv[i], status) EXCEPT !.cause = "status"]]
    /\ UNCHANGED <<now, maxRequests, windowMs, requests, calls, app>>

\* a network failure that gives the slot back: the invocation's timestamp is
\* taken out of its identity's list
FetchReject_refund(i) ==
    /\ inv[i].pc = "awaitFetch"
    /\ inv' = [inv EXCEPT ![i] =
                 [CatchHandler(inv[i], TypeError) EXCEPT !.cause = "network"]]
    /\ requests' = [requests EXCEPT ![ClientId(inv[i].args.authToken)] =
                       SelectSeq(@, LAMBDA t : t # calls[inv[i].gate].t)]
    /\ UNCHANGED <<now, maxRequests, windowMs, calls, app>>

\* DNS, connection or TLS failure: fetch() rejects
FetchReject(i) ==
    /\ inv[i].pc = "awaitFetch"
    /\ inv' = [inv EXCEPT ![i] =
                 [CatchHandler(inv[i], TypeError) EXCEPT !.cause = "network"]]
    /\ UNCHANGED <<now, maxRequests, windowMs, requests, calls, app>>

\* one AbortController for all invocations: abort() rejects every pending fetch()
TimerFire_sharedController(i) ==
    /\ inv[i].timer = "armed"
    /\ inv' = [j \in Slots |->
                 IF inv[j].pc = "awaitFetch"
                 THEN [CatchHandler([inv[j] EXCEPT !.timer = "fired"], AbortError)
                          EXCEPT !.cause = "timeout"]
                 ELSE IF j = i THEN [inv[j] EXCEPT !.timer = "fired"] ELSE inv[j]]
    /\ UNCHANGED <<now, maxRequests, windowMs, requests, calls, app>>

\* the timer runs out: controller.abort(); a pending fetch() rejects with AbortError
TimerFire(i) ==
    /\ inv[i].timer = "armed"
    /\ inv' = [inv EXCEPT ![i] =
                 IF inv[i].pc = "awaitFetch"
                 THEN [CatchHandler([inv[i] EXCEPT !.timer = "fired"], AbortError)
                          EXCEPT !.cause = "timeout"]
                 ELSE [inv[i] EXCEPT !.timer = "fired"]]
    /\ UNCHANGED <<now, maxRequests, windowMs, requests, calls, app>>

\* the body arrives whole and parses: response.json() resolves
JsonResolve(i, data) ==
    /\ inv[i].pc = "awaitJson"
    /\ inv' = [inv EXCEPT ![i] = [OnBody(inv[i], data) EXCEPT !.cause = "ok",
                                                             !.body = data]]
    /\ UNCHANGED <<now, maxRequests, windowMs, requests, calls, app>>

\* the body is not JSON (SyntaxError) or the connection breaks while it is read
\* (TypeError): response.json() rejects
JsonReject(i, error) ==
    /\ inv[i].pc = "awaitJson"
    /\ inv' = [inv EXCEPT ![i] =
                 [CatchHandler(inv[i], error) EXCEPT
                    !.cause = IF error = SyntaxError THEN "invalidJson" ELSE "network"]]
    /\ UNCHANGED <<now, maxRequests, windowMs, requests, calls, app>>

Next ==
    \/ Tick
    \/ \E i \in Slots : \E args \in InvocationArgs : Invoke(i, args)
    \/ \E i \in Slots : \E status \in Statuses : FetchResolve(i, status)
    \/ \E i \in Slots : FetchReject(i)
    \/ \E i \in Slots : TimerFire(i)
    \/ \E i \in Slots : \E data \in ResponseBodies : JsonResolve(i, data)
    \/ \E i \in Slots : \E error \in {SyntaxError, TypeError} : JsonReject(i, error)

Spec == Init /\ [][Next]_vars

\* setTimeout callbacks run: an armed timer does fire.  The upstream owes nothing.
FairSpec == Spec /\ \A i \in Slots : WF_vars(TimerFire(i))

----------------------------------------------------------------------------
(* The gates of makeCourtListenerRequest under many credentials: the calls are
   made and left waiting for the network. *)

\* well-formed credentials: tokenB has the first 8 characters of tokenA and
\* differs after them, tokenC differs from tokenA in the 8th character
tokenB == [k \in 1..TOKEN_LENGTH |-> IF k <= CLIENT_ID_PREFIX_LENGTH THEN "a" ELSE "b"]
tokenC == [k \in 1..TOKEN_LENGTH |-> IF k = CLIENT_ID_PREFIX_LENGTH THEN "c" ELSE "a"]

Credentials ==
    {JSUndefined, JSString(<<>>), JSString(tokenA), JSString(tokenB),
     JSString(tokenC), JSString(tokenInvalid)}

CredentialArgs ==
    {[endpoint |-> <<"/", "c", "o", "u", "r", "t", "s", "/">>, params |-> paramsNone,
      authToken |-> authToken] : authToken \in Credentials}

NextKeys ==
    \/ Tick
    \/ \E i \in Slots : \E args \in CredentialArgs : Invoke(i, args)

SpecKeys == Init /\ [][NextKeys]_vars

----------------------------------------------------------------------------
(* The tool handlers.  search-dockets stands for the tools that only call
   makeCourtListenerRequest; analyze-case-trends for the analysis tools, which
   first ask the limiter under a key of their own.  The text of a successful
   answer is kept as its heading. *)

ToolNames == {"search-dockets", "analyze-case-trends"}

\* process.env.COURTLISTENER_API_TOKEN, not set
COURTLISTENER_API_TOKEN == JSUndefined

\* a || b
JSOr(a, b) == IF Truthy(a) THEN a ELSE b

str_trend_analysis ==
    <<"t", "r", "e", "n", "d", "-", "a", "n", "a", "l", "y", "s", "i", "s">>

\* the key of the handler's own isAllowed call, <<>> when it makes none
ToolLimiterKey(tool) ==
    IF tool = "analyze-case-trends" THEN str_trend_analysis ELSE <<>>

\* the credential the handler passes on
ToolApiToken(tool, auth_token) ==
    IF tool = "analyze-case-trends"
    THEN JSOr(auth_token, COURTLISTENER_API_TOKEN)
    ELSE auth_token

\* the arguments of the handler's makeCourtListenerRequest call
ToolRequestArgs(tool, q, auth_token) ==
    IF tool = "analyze-case-trends"
    THEN [endpoint |-> <<"/", "s", "e", "a", "r", "c", "h", "/">>,
          params |-> <<[key |-> <<"q">>, value |-> JSString(q)],
                       [key |-> <<"t", "y", "p", "e">>, value |-> JSString(<<"o">>)],
                       [key |-> <<"o", "r", "d", "e", "r", "_", "b", "y">>,
                        value |-> JSString(<<"d", "a", "t", "e", "F", "i", "l", "e", "d",
                                             " ", "d", "e", "s", "c">>)],
                       [key |-> <<"p", "a", "g", "e", "_", "s", "i", "z", "e">>,
                        value |-> JSString(<<"5", "0">>)]>>,
          authToken |-> ToolApiToken(tool, auth_token)]
    ELSE [endpoint |-> <<"/", "d", "o", "c", "k", "e", "t", "s", "/">>,
          params |-> (IF q # <<>> THEN <<[key |-> <<"q">>, value |-> JSString(q)]>>
                                  ELSE <<>>)
                     \o <<[key |-> <<"p", "a", "g", "e", "_", "s", "i", "z", "e">>,
                           value |-> JSString(<<"1", "0">>)]>>,
          authToken |-> ToolApiToken(tool, auth_token)]

\* the answer of an analysis tool whose own isAllowed call returned false
RateLimitResponse == ToolResult(TRUE, "Rate limit exceeded. Please try again later.")

\* the handler from the return of makeCourtListenerRequest to its own return
ToolResponse(tool, data) ==
    IF tool = "analyze-case-trends"
    THEN IF data.t = "null" \/ ~Truthy(data.results) \/ data.results.n = 0
         THEN ToolResult(FALSE, "No cases found for query")
         ELSE ToolResult(FALSE, "Case Law Trend Analysis")
    ELSE IF data.t = "null"
         THEN ToolResult(FALSE, "Failed to retrieve dockets data from CourtListener API")
         ELSE IF data.results.n = 0
         THEN ToolResult(FALSE, "No dockets found matching the search criteria")
         ELSE ToolResult(FALSE, "Found dockets")

\* the tool calls made: each tool without a credential and with a well-formed one
\* (the schema of auth_token lets no malformed one reach a handler)
ToolQueries == {<<"a", "<", "b">>}
ToolTokens == {JSUndefined, JSString(tokenA)}

\* the upstream of the tools: list endpoints
ToolStatuses == {200, 500}
bodyEmptyList == Data("object", JSArray(0), JSNumber(0), JSNull, JSNull)
ToolBodies == {bodyList, bodyEmptyList}

\* a tool is called: the handler runs up to its first await
ToolCall(i, tool, q, auth_token) ==
    /\ inv[i].pc = "idle"
    /\ \A j \in Slots : j < i => inv[j].pc # "idle"
    /\ LET v == [inv[i] EXCEPT !.tool = tool, !.caller = auth_token]
           key == ToolLimiterKey(tool)
           gated == key # <<>>
           g == isAllowed(requests, key, now, maxRequests, windowMs)
           reqs1 == IF gated THEN g.requests ELSE requests
           calls1 == IF gated
                     THEN Append(calls, [id |-> key, t |-> now,
                                         before |-> TimesOf(requests, key),
                                         ret |-> g.ret, by |-> i])
                     ELSE calls
           toolGate == IF gated THEN Len(calls1) ELSE 0
       IN  IF gated /\ ~g.ret
           THEN /\ requests' = reqs1
                /\ calls' = calls1
                /\ inv' = [inv EXCEPT ![i] =
                             [v EXCEPT !.pc = "skipped", !.toolGate = toolGate,
                                       !.response = RateLimitResponse]]
           ELSE LET args == ToolRequestArgs(tool, q, auth_token)
                    r == StartRequest(v, args, reqs1, now, maxRequests, windowMs)
                IN  /\ requests' = r.requests
                    /\ calls' = IF r.called
                                THEN Append(calls1,
                                         [id |-> ClientId(args.authToken), t |-> now,
                                          before |-> TimesOf(reqs1, ClientId(args.authToken)),
                                          ret |-> r.ret, by |-> i])
                                ELSE calls1
                    /\ inv' = [inv EXCEPT ![i] =
                                 [r.inv EXCEPT
                                    !.gate = IF r.called THEN Len(calls1) + 1 ELSE 0,
                                    !.toolGate = toolGate]]
    /\ UNCHANGED <<now, maxRequests, windowMs, app>>

\* the handler goes on after await makeCourtListenerRequest(...) and returns
HandlerReturn(i) ==
    /\ inv[i].tool # "none"
    /\ inv[i].pc = "done"
    /\ inv[i].result.state = "fulfilled"
    /\ ~inv[i].response.returned
    /\ inv' = [inv EXCEPT ![i].response = ToolResponse(inv[i].tool, inv[i].result.value)]
    /\ UNCHANGED <<now, maxRequests, windowMs, requests, calls, app>>

NextTools ==
    \/ Tick
    \/ \E i \in Slots : \E tool \in ToolNames : \E q \in ToolQueries :
          \E auth_token \in ToolTokens : ToolCall(i, tool, q, auth_token)
    \/ \E i \in Slots : \E status \in ToolStatuses : FetchResolve(i, status)
    \/ \E i \in Slots : FetchReject(i)
    \/ \E i \in Slots : TimerFire(i)
    \/ \E i \in Slots : \E data \in ToolBodies : JsonResolve(i, data)
    \/ \E i \in Slots : JsonReject(i, SyntaxError)
    \/ \E i \in Slots : HandlerReturn(i)

SpecTools == Init /\ [][NextTools]_vars

----------------------------------------------------------------------------
(* The utility functions called directly, as the unit tests call them *)

\* what validateApiToken is given: undefined, and strings of the lengths around
\* TOKEN_LENGTH made of one character, with one other character at either end
TokenLengths == {0, 1, TOKEN_LENGTH - 1, TOKEN_LENGTH, TOKEN_LENGTH + 1}
TokenChars == {"a", "f", "0", "9", "g", "A", "F", "z", "/", ":", " ", "-"}

TokenInputs ==
    {JSUndefined, JSString(tokenInvalid), JSString(tokenB), JSString(tokenC)}
    \cup UNION {{JSString([k \in 1..n |-> IF k = pos THEN c ELSE base]) :
                    base \in {"a", "9"}, c \in TokenChars, pos \in {1, n}} :
                 n \in TokenLengths}

\* what sanitizeString is given: up to MaxPieces pieces in a row, the pieces
\* being parts of what it looks for; strings of the five characters it removes;
\* and strings around MAX_SANITIZED_LENGTH
Fragments ==
    {<<"j", "a", "v", "a">>,
     <<"v", "b">>,
     <<"S", "c", "r", "i", "p", "t", ":">>,
     <<"d", "a", "t", "a", ":">>,
     <<"o", "n">>,
     <<"=">>,
     <<" ">>,
     <<"k", "e", "y">>,
     <<"1">>,
     <<"T", "o", "k", "e", "n">>,
     <<"p", "a", "s", "s", "w", "o", "r", "d">>,
     <<"s", "e", "c", "r", "e", "t">>,
     <<"<">>}

RECURSIVE Concat(_)
Concat(pieces) ==
    IF pieces = <<>> THEN <<>> ELSE Head(pieces) \o Concat(Tail(pieces))

Pieced == {Concat(pieces) : pieces \in UNION {[1..n -> Fragments] : n \in 0..MaxPieces}}

CharInputs == UNION {[1..n -> DangerousChars \cup {"a"}] : n \in 0..MaxPieces}

LongInputs ==
    {[k \in 1..(MAX_SANITIZED_LENGTH + 500) |-> "a"],
     [k \in 1..MAX_SANITIZED_LENGTH |-> "a"],
     [k \in 1..(MAX_SANITIZED_LENGTH - 1) |-> "a"] \o <<"<", "b", ">">>,
     [k \in 1..(MAX_SANITIZED_LENGTH - 2) |-> "a"] \o <<"k", "e", "y", "1">>}

SanitizeInputs == Pieced \cup CharInputs \cup LongInputs

\* what validateAndSanitizeParams is given: objects with the keys q and limit, or
\* with q alone, or empty, the values being of every type
ParamKeys == <<<<"q">>, <<"l", "i", "m", "i", "t">>>>

ParamValues ==
    {JSUndefined, JSNull, JSString(<<>>), JSString(<<"<">>), JSString(<<"a", "<", "b">>),
     JSString(<<"k", "e", "y", "1">>), JSNumber(0), JSNumber(10), JSNaN,
     JSBoolean(TRUE), JSBoolean(FALSE), JSArray(3), JSObject}

ParamInputs ==
    UNION {{[k \in 1..n |-> [key |-> ParamKeys[k], value |-> values[k]]] :
               values \in [1..n -> ParamValues]} : n \in 0..Len(ParamKeys)}

\* validateAndSanitizeParams(params)
CallValidateAndSanitizeParams(params) ==
    /\ app = NoApplication
    /\ app' = [fn |-> "validateAndSanitizeParams", arg |-> params,
               out |-> validateAndSanitizeParams(params), pass |-> 1]
    /\ UNCHANGED <<now, maxRequests, windowMs, requests, calls, inv>>

\* what normalizeApiResponse is given: null, and objects with results, count,
\* next and previous of several types each
BodyInputs ==
    {NullValue}
    \cup {Data("object", results, count, next, previous) :
             results \in {JSUndefined, JSNull, JSArray(0), JSArray(2), JSArray(3)},
             count \in {JSUndefined, JSNull, JSNumber(0), JSNumber(2), JSNumber(0 - 5),
                        JSNaN, JSString(<<"5">>), JSString(<<"n", "o">>),
                        JSBoolean(TRUE), JSObject},
             next \in {JSUndefined, JSNull, JSNumber(7), JSString(<<"u">>)},
             previous \in {JSNull, JSNumber(7)}}

\* normalizeApiResponse(data)
CallNormalizeApiResponse(data) ==
    /\ app = NoApplication
    /\ app' = [fn |-> "normalizeApiResponse", arg |-> data,
               out |-> normalizeApiResponse(data), pass |-> 1]
    /\ UNCHANGED <<now, maxRequests, windowMs, requests, calls, inv>>

\* one call of makeCourtListenerRequest without credential, with params of
\* every kind, left waiting for the network
QueryArgs ==
    {[endpoint |-> <<"/", "d", "o", "c", "k", "e", "t", "s", "/">>, params |-> params,
      authToken |-> JSUndefined] : params \in ParamInputs}

NextQuery == \E args \in QueryArgs : Invoke(1, args)

SpecQuery == Init /\ [][NextQuery]_vars

\* validateApiToken(token)
CallValidateApiToken(token) ==
    /\ app = NoApplication
    /\ app' = [fn |-> "validateApiToken", arg |-> token,
               out |-> validateApiToken(token), pass |-> 1]
    /\ UNCHANGED <<now, maxRequests, windowMs, requests, calls, inv>>

\* sanitizeString(input)
CallSanitizeString(input) ==
    /\ app = NoApplication
    /\ app' = [fn |-> "sanitizeString", arg |-> input,
               out |-> sanitizeString(input), pass |-> 1]
    /\ UNCHANGED <<now, maxRequests, windowMs, requests, calls, inv>>

\* sanitizeString(sanitizeString(input)): the result is sanitized once more
SanitizeAgain ==
    /\ app.fn = "sanitizeString"
    /\ app.pass = 1
    /\ app' = [fn |-> "sanitizeString", arg |-> app.out,
               out |-> sanitizeString(app.out), pass |-> 2]
    /\ UNCHANGED <<now, maxRequests, windowMs, requests, calls, inv>>

NextUtil ==
    \/ \E token \in TokenInputs : CallValidateApiToken(token)
    \/ \E input \in SanitizeInputs : CallSanitizeString(input)
    \/ \E params \in ParamInputs : CallValidateAndSanitizeParams(params)
    \/ \E data \in BodyInputs : CallNormalizeApiResponse(data)
    \/ SanitizeAgain

SpecUtil == Init /\ [][NextUtil]_vars

----------------------------------------------------------------------------
(* Claims about the RateLimiter (checked under SpecRL) *)

CalledIds == {calls[k].id : k \in DOMAIN calls}

CallsOf(identifier) == SelectSeq(calls, LAMBDA c : c.id = identifier)

\* the admitted calls of an identity with lo < timestamp <= hi
AdmittedIn(identifier, lo, hi) ==
    {k \in DOMAIN calls : /\ calls[k].id = identifier
                          /\ calls[k].ret
                          /\ lo < calls[k].t
                          /\ calls[k].t <= hi}

\* C1: for every identity and every instant t, at most maxRequests calls of that
\* identity returned true with a timestamp in the trailing window (t - windowMs, t].
C1_SlidingWindowBound ==
    \A identifier \in CalledIds : \A t \in 0..MaxTime :
        Cardinality(AdmittedIn(identifier, t - windowMs, t)) <= maxRequests

\* C1 witness: an identity was rejected with its window full and, after old
\* timestamps left the window, admitted again up to the limit.
C1_Witness ==
    \E k \in DOMAIN calls : \E j \in DOMAIN calls :
        /\ k < j
        /\ calls[k].id = calls[j].id
        /\ ~calls[k].ret
        /\ calls[j].ret
        /\ Cardinality(AdmittedIn(calls[j].id, calls[j].t - windowMs, calls[j].t))
              = maxRequests

\* C2: on a fresh limiter the first maxRequests calls of one identity made within
\* one window all return true, and the next call in that window returns false.
C2_FirstMaxAdmittedNextRejected ==
    \A identifier \in CalledIds :
        LET cs == CallsOf(identifier)
        IN  \A k \in DOMAIN cs :
                cs[k].t - cs[1].t < windowMs =>
                    /\ (k <= maxRequests => cs[k].ret)
                    /\ (k = maxRequests + 1 => ~cs[k].ret)

\* C2 witness: an identity made maxRequests + 1 calls at more than one instant of
\* one window; the last of them was rejected.
C2_Witness ==
    \E identifier \in CalledIds :
        LET cs == CallsOf(identifier)
        IN  /\ Len(cs) > maxRequests
            /\ maxRequests >= 2
            /\ cs[maxRequests + 1].t > cs[1].t
            /\ cs[maxRequests + 1].t - cs[1].t < windowMs
            /\ ~cs[maxRequests + 1].ret

\* C3 as stated: with the quota exhausted, a call made when
\* now - oldest recorded timestamp >= windowMs returns true.
C3_Original ==
    \A k \in DOMAIN calls :
        (/\ Len(calls[k].before) >= maxRequests
         /\ calls[k].t - calls[k].before[1] >= windowMs) => calls[k].ret

\* C3 amended: with the quota exhausted, a call made when
\* now - oldest recorded timestamp > windowMs returns true.
C3_AdmittedAfterWindow ==
    \A k \in DOMAIN calls :
        (/\ Len(calls[k].before) >= maxRequests
         /\ calls[k].t - calls[k].before[1] > windowMs) => calls[k].ret

\* C3 witness: a call found the list full, its oldest entry more than windowMs old,
\* and was admitted.
C3_Witness ==
    \E k \in DOMAIN calls :
        /\ Len(calls[k].before) >= maxRequests
        /\ calls[k].t - calls[k].before[1] > windowMs
        /\ calls[k].ret

\* C4: a call that returns false adds no timestamp: every identity's recorded list
\* is the same after the rejected call as before it.
C4_RejectedRecordsNothing ==
    [][(/\ Len(calls') = Len(calls) + 1
        /\ ~calls'[Len(calls')].ret)
          => \A identifier \in DOMAIN requests' :
                TimesOf(requests', identifier) = TimesOf(requests, identifier)]_vars

\* C4 witness: an identity was rejected twice in a row and then admitted.
C4_Witness ==
    \E identifier \in CalledIds :
        LET cs == CallsOf(identifier)
        IN  \E k \in DOMAIN cs :
                /\ k + 2 <= Len(cs)
                /\ ~cs[k].ret
                /\ ~cs[k + 1].ret
                /\ cs[k + 2].ret

\* the calls cs of one identity made alone on a fresh limiter
RECURSIVE Replay(_, _, _)
Replay(cs, reqs, rets) ==
    IF cs = <<>>
    THEN [requests |-> reqs, rets |-> rets]
    ELSE LET r == isAllowed(reqs, cs[1].id, cs[1].t, maxRequests, windowMs)
         IN  Replay(Tail(cs), r.requests, Append(rets, r.ret))

\* C5: calls of other identities change nothing for an identity: its recorded
\* timestamps and the result of each of its calls are those of a run in which
\* only that identity called.
C5_IdentitiesIndependent ==
    \A identifier \in CalledIds :
        LET cs == CallsOf(identifier)
            alone == Replay(cs, <<>>, <<>>)
        IN  /\ TimesOf(requests, identifier) = TimesOf(alone.requests, identifier)
            /\ \A k \in DOMAIN cs : cs[k].ret = alone.rets[k]

\* C5 witness: one identity was rejected with its quota exhausted and afterwards
\* another identity called and was admitted.
C5_Witness ==
    \E k \in DOMAIN calls : \E j \in DOMAIN calls :
        /\ k < j
        /\ calls[k].id # calls[j].id
        /\ ~calls[k].ret
        /\ calls[j].ret

----------------------------------------------------------------------------
(* Claims about makeCourtListenerRequest (checked under Spec and FairSpec) *)

\* the credential gate of an invocation's arguments: no credential, or a valid one
CredentialGate(args) == ~Truthy(args.authToken) \/ validateApiToken(args.authToken)

\* the invocation called isAllowed for its own identity and got this result
RateGateResult(i, ret) ==
    /\ inv[i].gate \in DOMAIN calls
    /\ calls[inv[i].gate].by = i
    /\ calls[inv[i].gate].id = ClientId(inv[i].args.authToken)
    /\ calls[inv[i].gate].ret = ret

\* every query parameter sent is the sanitized form of the caller's parameter of
\* that key, and holds no dangerous character
QuerySanitized(v) ==
    \A k \in DOMAIN v.request.query :
        LET e == v.request.query[k]
        IN  /\ \E j \in DOMAIN v.args.params :
                 /\ v.args.params[j].key = e.key
                 /\ v.args.params[j].value.t \in {"string", "number", "boolean"}
                 /\ e.value = IF v.args.params[j].value.t = "string"
                              THEN sanitizeString(v.args.params[j].value.s)
                              ELSE JSToString(v.args.params[j].value)
            /\ \A c \in Range(e.value) : c \notin DangerousChars

\* C6: a GET is issued only when the credential gate and the rate gate have passed
\* and with sanitized parameters; an invocation that fails either gate has
\* returned null and issued no GET.
C6_GatesBeforeNetwork ==
    \A i \in Slots :
        /\ inv[i].fetches > 0 =>
              /\ CredentialGate(inv[i].args)
              /\ RateGateResult(i, TRUE)
              /\ QuerySanitized(inv[i])
        /\ (inv[i].pc # "idle" /\ (~CredentialGate(inv[i].args) \/ RateGateResult(i, FALSE)))
              => /\ inv[i].pc = "done"
                 /\ inv[i].result = Fulfilled(NullValue)
                 /\ inv[i].fetches = 0

\* C6 witness: one invocation passed both gates and issued its GET with a
\* sanitized parameter while another was stopped by the rate gate.
C6_Witness ==
    \E i \in Slots : \E j \in Slots :
        /\ inv[i].fetches = 1
        /\ inv[i].request.query # <<>>
        /\ RateGateResult(j, FALSE)
        /\ inv[j].pc = "done"

\* the failure an invocation ended with, "none" when it has not failed
FailureCause(i) ==
    CASE inv[i].pc # "done" -> "none"
      [] ~CredentialGate(inv[i].args) -> "credential"
      [] RateGateResult(i, FALSE) -> "rateLimit"
      [] inv[i].cause = "network" -> "network"
      [] inv[i].cause = "timeout" -> "timeout"
      [] inv[i].cause = "status" -> "status"
      [] inv[i].cause = "invalidJson" -> "invalidJson"
      [] OTHER -> "none"

\* C7: whatever the cause of the failure, the value returned is the one value null.
C7_UniformFailureValue ==
    \A i \in Slots :
        FailureCause(i) # "none" => inv[i].result = Fulfilled(NullValue)

\* C7 witness: two invocations failed, one on the upstream's status and one on
\* the local rate limit, and returned the same value.
C7_Witness ==
    \E i \in Slots : \E j \in Slots :
        /\ FailureCause(i) = "status"
        /\ FailureCause(j) = "rateLimit"
        /\ inv[i].result = inv[j].result

\* C8: the promise returned never rejects: it is pending until the invocation is
\* done and fulfilled from then on.
C8_NeverRejects ==
    \A i \in Slots :
        /\ inv[i].result.state # "rejected"
        /\ inv[i].pc = "done" <=> inv[i].result.state = "fulfilled"

\* C8 witness: response.json() rejected on an unparsable body and the invocation
\* returned null.
C8_Witness ==
    \E i \in Slots :
        /\ FailureCause(i) = "invalidJson"
        /\ inv[i].result = Fulfilled(NullValue)

\* C9 as stated: every invocation that issues the GET eventually returns
\* (checked under FairSpec: an armed timer fires, the upstream owes nothing).
C9_Original ==
    \A i \in Slots : (inv[i].fetches > 0) ~> (inv[i].pc = "done")

\* C10: an invocation issues at most one GET, exactly one once both gates have
\* passed, and a failed attempt is not followed by a second one.
C10_ExactlyOneGet ==
    \A i \in Slots :
        /\ inv[i].fetches <= 1
        /\ (inv[i].pc # "idle" /\ CredentialGate(inv[i].args) /\ RateGateResult(i, TRUE))
              => inv[i].fetches = 1
        /\ FailureCause(i) # "none" => inv[i].result = Fulfilled(NullValue)

\* C10 witness: fetch() rejected with a network error and the invocation
\* returned having issued one GET.
C10_Witness ==
    \E i \in Slots :
        /\ FailureCause(i) = "network"
        /\ inv[i].fetches = 1

----------------------------------------------------------------------------
(* Claims about concurrent invocations (checked under Spec) *)

\* the step is the timeout callback of invocation i
TimedOutStep(i) == inv[i].timer = "armed" /\ inv'[i].timer = "fired"

\* C11: the timeout of one invocation aborts that invocation's pending HTTP call
\* (it returns null) and changes nothing of any other invocation: the others stay
\* as they were, in flight or completed with their own result.
C11_TimeoutCancelsOnlyItsOwnCall ==
    [][\A i \in Slots :
          TimedOutStep(i) =>
              /\ inv[i].pc = "awaitFetch" =>
                     /\ inv'[i].pc = "done"
                     /\ inv'[i].result = Fulfilled(NullValue)
              /\ \A j \in Slots \ {i} : inv'[j] = inv[j]
              /\ requests' = requests]_vars

\* C11 witness: invocation 1 was started first and is still waiting for its
\* response after invocation 2, started later, has timed out.
C11_Witness ==
    /\ inv[2].cause = "timeout"
    /\ inv[2].result = Fulfilled(NullValue)
    /\ inv[1].pc = "awaitFetch"
    /\ inv[1].timer = "armed"

\* the timestamps of the admitted calls of an identity, in the order of the calls
AdmittedTimes(identifier) ==
    LET cs == SelectSeq(calls, LAMBDA c : c.id = identifier /\ c.ret)
    IN  [k \in DOMAIN cs |-> cs[k].t]

\* C12: with invocations interleaved at their awaits, the limiter's list of an
\* identity is the sequence of that identity's admitted timestamps, each once and
\* in order, less a prefix of timestamps that had left the window at the
\* identity's latest call; every invocation passes the gate at most once; and no
\* window holds more than maxRequests admissions of the identity.
C12_MapNotCorrupted ==
    /\ \A i \in Slots : Cardinality({k \in DOMAIN calls : calls[k].by = i}) <= 1
    /\ \A identifier \in CalledIds :
           LET adm == AdmittedTimes(identifier)
               cur == TimesOf(requests, identifier)
               dropped == Len(adm) - Len(cur)
               cs == CallsOf(identifier)
               last == cs[Len(cs)].t
           IN  /\ dropped >= 0
               /\ cur = SubSeq(adm, dropped + 1, Len(adm))
               /\ \A k \in 1..dropped : adm[k] < last - windowMs
               /\ \A t \in 0..MaxTime :
                      Cardinality(AdmittedIn(identifier, t - windowMs, t)) <= maxRequests

\* C12 witness: two invocations of one identity are in flight at once, both
\* admitted, the second after the first one's timestamp had left the window.
C12_Witness ==
    /\ inv[1].pc = "awaitFetch"
    /\ inv[2].pc = "awaitFetch"
    /\ ClientId(inv[1].args.authToken) = ClientId(inv[2].args.authToken)
    /\ RateGateResult(1, TRUE)
    /\ RateGateResult(2, TRUE)

----------------------------------------------------------------------------
(* Claims about the tools (checked under SpecTools) *)

\* the tool call of slot i has returned without data: its handler's own limiter
\* call rejected it, or makeCourtListenerRequest returned null
CannotRetrieve(i) ==
    /\ inv[i].response.returned
    /\ \/ inv[i].pc = "skipped"
       \/ inv[i].pc = "done" /\ inv[i].result = Fulfilled(NullValue)

\* C13: a tool call that cannot retrieve data gets the same answer of its tool
\* whatever the cause, and no answer names a rate limit.
C13_Original ==
    \A i \in Slots :
        CannotRetrieve(i) =>
            /\ inv[i].response.text # "Rate limit exceeded. Please try again later."
            /\ \A j \in Slots :
                   CannotRetrieve(j) /\ inv[j].tool = inv[i].tool =>
                       inv[j].response = inv[i].response

\* the client identity of the caller of the tool call in slot i
ClientOf(i) == ClientId(inv[i].caller)

\* the slots of one client identity, other than slot i, with an isAllowed call
\* admitted before call k and inside the window that ends at call k
AdmittedBefore(i, k) ==
    {j \in Slots \ {i} :
        /\ inv[j].tool # "none"
        /\ ClientOf(j) = ClientOf(i)
        /\ \E m \in 1..(k - 1) : /\ calls[m].by = j
                                  /\ calls[m].ret
                                  /\ calls[m].t >= calls[k].t - windowMs}

\* C14: a tool call is rejected by the local limiter only if the caller's own
\* identity already has maxRequests admitted requests in the trailing window.
C14_Original ==
    \A k \in DOMAIN calls :
        ~calls[k].ret /\ calls[k].by \in Slots =>
            Cardinality(AdmittedBefore(calls[k].by, k)) >= maxRequests

----------------------------------------------------------------------------
(* Claims about the window key (checked under SpecKeys) *)

\* a credential is present: the argument is a non-empty string
HasCredential(authToken) == authToken.t = "string" /\ Len(authToken.s) > 0

\* the key the claim names for a credential
ExpectedKey(authToken) ==
    IF HasCredential(authToken)
    THEN <<"t", "o", "k", "e", "n", ":">>
         \o [k \in 1..MinOf({8, Len(authToken.s)}) |-> authToken.s[k]]
    ELSE <<"a", "n", "o", "n", "y", "m", "o", "u", "s">>

\* both without credential, or both with one and equal in the first 8 characters
SameWindow(a, b) ==
    IF HasCredential(a) /\ HasCredential(b)
    THEN \A k \in 1..8 : (k <= Len(a.s) \/ k <= Len(b.s)) =>
             k <= Len(a.s) /\ k <= Len(b.s) /\ a.s[k] = b.s[k]
    ELSE ~HasCredential(a) /\ ~HasCredential(b)

\* the invocations that reached the rate gate
Gated == {i \in Slots : inv[i].gate \in DOMAIN calls}

\* the invocations admitted before invocation i, within the window that ends at
\* its gate, whose credential shares the window of i's credential
AdmittedSharers(i) ==
    {j \in Gated \ {i} :
        /\ inv[j].gate < inv[i].gate
        /\ calls[inv[j].gate].ret
        /\ calls[inv[j].gate].t >= calls[inv[i].gate].t - windowMs
        /\ SameWindow(inv[j].args.authToken, inv[i].args.authToken)}

\* C15: the keys of the limiter's map are exactly token: + the first 8 characters
\* of the credentials that reached the gate, and anonymous for the invocations
\* without one; an invocation is rejected exactly when maxRequests earlier
\* invocations in its window were admitted with no credential like it, or with
\* a credential equal to its own in the first 8 characters.
C15_WindowKey ==
    /\ DOMAIN requests = {ExpectedKey(inv[i].args.authToken) : i \in Gated}
    /\ \A i \in Gated :
           ~calls[inv[i].gate].ret <=> Cardinality(AdmittedSharers(i)) >= maxRequests

\* C15 witness: two different credentials with the same first 8 characters, the
\* second rejected because the first was admitted.
C15_Witness ==
    /\ inv[1].args.authToken = JSString(tokenA)
    /\ inv[2].args.authToken = JSString(tokenB)
    /\ RateGateResult(1, TRUE)
    /\ RateGateResult(2, FALSE)

----------------------------------------------------------------------------
(* Claims about the utility functions (checked under SpecUtil) *)

HexChars ==
    {"0", "1", "2", "3", "4", "5", "6", "7", "8", "9", "a", "b", "c", "d", "e", "f"}

\* C16: validateApiToken returns a boolean, and returns true exactly for
\* undefined, for the empty string, and for a string of exactly 40 characters
\* each in a-f or 0-9.
C16_ValidateApiToken ==
    app.fn = "validateApiToken" =>
        /\ app.out \in BOOLEAN
        /\ app.out <=> \/ app.arg.t = "undefined"
                       \/ app.arg.t = "string" /\ Len(app.arg.s) = 0
                       \/ /\ app.arg.t = "string"
                          /\ Len(app.arg.s) = 40
                          /\ \A k \in 1..40 : app.arg.s[k] \in HexChars

\* C16 witness: a string of 40 characters with a letter and digits was accepted.
C16_Witness ==
    /\ app.fn = "validateApiToken"
    /\ app.out = TRUE
    /\ Len(app.arg.s) = 40
    /\ app.arg.s[1] = "f"
    /\ app.arg.s[2] = "9"

\* C17: what sanitizeString returns contains none of the characters < > " ' &.
C17_NoDangerousChars ==
    app.fn = "sanitizeString" =>
        \A k \in DOMAIN app.out : app.out[k] \notin {"<", ">", "\"", "'", "&"}

\* C17 witness: an input with dangerous characters around a letter came back as
\* the letter alone.
C17_Witness ==
    /\ app.fn = "sanitizeString"
    /\ app.pass = 1
    /\ app.arg = <<"&", "a", "<">>
    /\ app.out = <<"a">>

\* a match of re starts somewhere in s
Contains(s, re) == \E i \in 1..Len(s) : MatchEnd(s, i, re) > 0

\* C18: what sanitizeString returns contains, in any case of letters, no
\* javascript:, no data:, no vbscript: and no on<word>= pattern.
C18_Original ==
    app.fn = "sanitizeString" =>
        /\ ~Contains(app.out, Literal(str_javascript))
        /\ ~Contains(app.out, Literal(str_data))
        /\ ~Contains(app.out, Literal(str_vbscript))
        /\ ~Contains(app.out, EventHandler)

\* C19: sanitizing the result of sanitizeString once more returns it unchanged.
C19_Original ==
    app.fn = "sanitizeString" /\ app.pass = 2 => app.out = app.arg

\* lit, in any case of letters, with at least one digit right after it
ContainsWithDigits(s, lit) ==
    \E i \in 1..Len(s) :
        /\ LiteralEnd(s, i, lit) > 0
        /\ LiteralEnd(s, i, lit) <= Len(s)
        /\ s[LiteralEnd(s, i, lit)] \in DigitClass

\* s has none of the five characters and none of the four patterns
NothingToRemove(s) ==
    /\ \A k \in DOMAIN s : s[k] \notin {"<", ">", "\"", "'", "&"}
    /\ ~Contains(s, Literal(str_javascript))
    /\ ~Contains(s, Literal(str_data))
    /\ ~Contains(s, Literal(str_vbscript))
    /\ ~Contains(s, EventHandler)

RedactedWords == {str_password, str_secret, str_token, str_key}

\* sub can be read in s from left to right, skipping characters of s
RECURSIVE Embeds(_, _)
Embeds(sub, s) ==
    IF sub = <<>> THEN TRUE
    ELSE IF s = <<>> THEN FALSE
    ELSE IF Head(sub) = Head(s) THEN Embeds(Tail(sub), Tail(s))
    ELSE Embeds(sub, Tail(s))

\* the length of the longest common prefix of a and b
CommonPrefix(a, b) ==
    MinOf({k \in 1..MinOf({Len(a), Len(b)}) : a[k] # b[k]}
          \cup {MinOf({Len(a), Len(b)}) + 1}) - 1

\* sub is s with some characters left out
IsSubsequence(sub, s) ==
    Embeds(SubSeq(sub, CommonPrefix(sub, s) + 1, Len(sub)),
           SubSeq(s, CommonPrefix(sub, s) + 1, Len(s)))

WithoutDangerous(s) == SelectSeq(s, LAMBDA c : c \notin {"<", ">", "\"", "'", "&"})

\* C21: the result of sanitizeString has at most 1000 characters, and the bound
\* is applied after the removals: an input that, once the five characters are
\* taken out, holds no pattern and no redacted word comes back as the first
\* min(length, 1000) characters of what is left (of the input itself when it has
\* none of the five characters either).
C21_TruncatedAfterRemoval ==
    app.fn = "sanitizeString" /\ app.pass = 1 =>
        LET kept == WithoutDangerous(app.arg)
        IN  /\ Len(app.out) <= 1000
            /\ (/\ ~Contains(kept, Literal(str_javascript))
                /\ ~Contains(kept, Literal(str_data))
                /\ ~Contains(kept, Literal(str_vbscript))
                /\ ~Contains(kept, EventHandler)
                /\ \A lit \in RedactedWords : ~Contains(kept, Literal(lit)))
               => app.out = [k \in 1..MinOf({Len(kept), 1000}) |-> kept[k]]

\* C21 witness: an input of 1002 characters, two of them dangerous and the last
\* of these beyond the 1000th place, came back with 1000 characters, the last
\* one being the letter that stood between the two.
C21_Witness ==
    /\ app.fn = "sanitizeString"
    /\ app.pass = 1
    /\ Len(app.arg) = 1002
    /\ app.arg[1000] = "<"
    /\ Len(app.out) = 1000
    /\ app.out[1000] = "b"

\* the entries of an object, given as a sequence, that have the key
EntriesOf(object, key) == {k \in DOMAIN object : object[k].key = key}

\* the text the claim names for a number or a boolean
ExpectedText(v) ==
    CASE v = JSNumber(0) -> <<"0">>
      [] v = JSNumber(10) -> <<"1", "0">>
      [] v = JSNaN -> <<"N", "a", "N">>
      [] v = JSBoolean(TRUE) -> <<"t", "r", "u", "e">>
      [] v = JSBoolean(FALSE) -> <<"f", "a", "l", "s", "e">>

\* C22: in the result of validateAndSanitizeParams a key of the input whose value
\* is null, undefined, an array or an object is absent; a key with a string value
\* is present once, with the sanitized string (the empty string included); a key
\* with a number or a boolean is present once, with its text; no other key is
\* present.
C22_OneOutcomePerKey ==
    app.fn = "validateAndSanitizeParams" =>
        /\ \A k \in DOMAIN app.arg :
               LET v == app.arg[k].value
                   found == EntriesOf(app.out, app.arg[k].key)
               IN  CASE v.t \in {"null", "undefined", "array", "object"} ->
                            found = {}
                     [] v.t = "string" ->
                            /\ Cardinality(found) = 1
                            /\ \A j \in found : app.out[j].value = sanitizeString(v.s)
                     [] v.t \in {"number", "boolean"} ->
                            /\ Cardinality(found) = 1
                            /\ \A j \in found : app.out[j].value = ExpectedText(v)
        /\ \A j \in DOMAIN app.out : EntriesOf(app.arg, app.out[j].key) # {}

\* C22 witness: the empty string and the number 0 were given and both are in
\* the result, as "" and as "0".
C22_Witness ==
    /\ app.fn = "validateAndSanitizeParams"
    /\ Len(app.arg) = 2
    /\ app.arg[1].value = JSString(<<>>)
    /\ app.arg[2].value = JSNumber(0)
    /\ Len(app.out) = 2
    /\ app.out[1].value = <<>>
    /\ app.out[2].value = <<"0">>

----------------------------------------------------------------------------
(* Claims about the response (C23 checked under Spec, C24 under SpecUtil) *)

\* the string is made of decimal digits
IsNumericString(str) == Len(str) > 0 /\ \A k \in DOMAIN str : str[k] \in DigitClass

\* the number a string of decimal digits stands for
RECURSIVE ParseDigits(_)
ParseDigits(str) ==
    IF str = <<>>
    THEN 0
    ELSE 10 * ParseDigits(SubSeq(str, 1, Len(str) - 1))
         + (CHOOSE d \in 0..9 : DigitChars[d + 1] = str[Len(str)])

\* C23: when the body of a successful response has a results array and a count
\* that is a numeric string, the value returned has the count parsed from it.
C23_Original ==
    \A i \in Slots :
        /\ inv[i].pc = "done"
        /\ inv[i].cause = "ok"
        /\ inv[i].body.results.t = "array"
        /\ inv[i].body.count.t = "string"
        /\ IsNumericString(inv[i].body.count.s)
        => inv[i].result.value.count = JSNumber(ParseDigits(inv[i].body.count.s))

\* the body has a results array
ListShaped(data) == data.t = "object" /\ data.results.t = "array"

\* C24: for a body with a results array the normalized count is the original
\* count when that is a number that is not NaN and not negative, and
\* results.length when count is missing, null, NaN, negative, of another type
\* than number or string, or a string that is not numeric; and in every case the
\* normalized count is a number, not NaN and not negative.
C24_CountNormalized ==
    app.fn = "normalizeApiResponse" /\ ListShaped(app.arg) =>
        LET count == app.arg.count
        IN  /\ app.out.count.t = "number"
            /\ ~app.out.count.nan
            /\ app.out.count.n >= 0
            /\ count.t = "number" /\ ~count.nan /\ count.n >= 0 =>
                   app.out.count = count
            /\ \/ count.t \in {"undefined", "null", "boolean", "object", "array"}
               \/ count.t = "number" /\ (count.nan \/ count.n < 0)
               \/ count.t = "string" /\ ~IsNumericString(count.s)
               => app.out.count.n = app.arg.results.n

\* C24 witness: a body with no results and the count -5 came back with count 0.
C24_Witness ==
    /\ app.fn = "normalizeApiResponse"
    /\ app.arg.results = JSArray(0)
    /\ app.arg.count = JSNumber(0 - 5)
    /\ app.out.count = JSNumber(0)

----------------------------------------------------------------------------
(* Claims about the outbound request *)

str_Authorization == <<"A", "u", "t", "h", "o", "r", "i", "z", "a", "t", "i", "o", "n">>

\* the places of the headers of a request that have the name
HeadersNamed(request, name) ==
    {k \in DOMAIN request.headers : request.headers[k].name = name}

\* C25 (checked under SpecKeys): a request that was issued has one User-Agent and
\* one Accept header; it has an Authorization header, and then exactly one, if
\* and only if the credential is a non-empty string; the value of that header is
\* "Token " followed by the credential, and the credential is 40 characters in
\* a-f, 0-9; without a credential the request has those two headers only.
C25_AuthorizationHeader ==
    \A i \in Slots :
        inv[i].fetches > 0 =>
            LET request == inv[i].request
                authToken == inv[i].args.authToken
                auth == HeadersNamed(request, str_Authorization)
            IN  /\ Cardinality(HeadersNamed(request, <<"U", "s", "e", "r", "-", "A", "g", "e", "n", "t">>)) = 1
                /\ Cardinality(HeadersNamed(request, <<"A", "c", "c", "e", "p", "t">>)) = 1
                /\ Len(request.headers) = 2 + Cardinality(auth)
                /\ IF HasCredential(authToken)
                   THEN /\ Cardinality(auth) = 1
                        /\ \A k \in auth :
                               request.headers[k].value
                                   = <<"T", "o", "k", "e", "n", " ">> \o authToken.s
                        /\ Len(authToken.s) = 40
                        /\ \A k \in 1..40 : authToken.s[k] \in HexChars
                   ELSE auth = {}

\* C25 witness: a request made with the empty string as credential went out with
\* two headers, and one made with a well-formed credential with three.
C25_Witness ==
    /\ inv[1].args.authToken = JSString(<<>>)
    /\ inv[1].fetches = 1
    /\ Len(inv[1].request.headers) = 2
    /\ inv[2].args.authToken = JSString(tokenC)
    /\ inv[2].fetches = 1
    /\ Len(inv[2].request.headers) = 3

\* the places of the entries of a query, or of an object, that have the key
WithKey(entries, key) == {k \in DOMAIN entries : entries[k].key = key}

\* C26 (checked under SpecQuery): the query of a request that was issued has a
\* parameter with a key, and then once and with the sanitized value, if and
\* only if validateAndSanitizeParams(params) has the key with a value that is
\* not the empty string.
C26_QueryParameters ==
    \A i \in Slots :
        inv[i].fetches > 0 =>
            LET sanitizedParams == validateAndSanitizeParams(inv[i].args.params)
                query == inv[i].request.query
                keys == {inv[i].args.params[k].key : k \in DOMAIN inv[i].args.params}
                        \cup {query[k].key : k \in DOMAIN query}
            IN  \A key \in keys :
                    IF \E k \in WithKey(sanitizedParams, key) :
                           sanitizedParams[k].value # <<>>
                    THEN /\ Cardinality(WithKey(query, key)) = 1
                         /\ \A k \in WithKey(query, key) :
                                \A j \in WithKey(sanitizedParams, key) :
                                    query[k].value = sanitizedParams[j].value
                    ELSE WithKey(query, key) = {}

\* C26 witness: of a string that sanitizes to the empty string and the number 0
\* only the number is in the query, as "0".
C26_Witness ==
    /\ inv[1].fetches = 1
    /\ Len(inv[1].args.params) = 2
    /\ inv[1].args.params[1].value = JSString(<<"<">>)
    /\ inv[1].args.params[2].value = JSNumber(0)
    /\ Len(inv[1].request.query) = 1
    /\ inv[1].request.query[1].value = <<"0">>

----------------------------------------------------------------------------
(* Further claims about the RateLimiter *)

\* C27 (checked under SpecRL): the list of every identity is in non-decreasing
\* order and holds no time later than the clock.
C27_ListSorted ==
    \A identifier \in DOMAIN requests :
        LET requestTimes == requests[identifier]
        IN  /\ \A k \in 1..(Len(requestTimes) - 1) : requestTimes[k] <= requestTimes[k + 1]
            /\ \A k \in DOMAIN requestTimes : requestTimes[k] <= now

\* C27 witness: a list holds two timestamps taken at different times.
C27_Witness ==
    \E identifier \in DOMAIN requests :
        /\ Len(requests[identifier]) = 2
        /\ requests[identifier][1] < requests[identifier][2]

----------------------------------------------------------------------------
(* Claims about what an invocation does to the limiter (checked under Spec) *)

\* the time of the latest isAllowed call of an identity
LastCallTime(identifier) == CallsOf(identifier)[Len(CallsOf(identifier))].t

\* the timestamp recorded for invocation i is in its identity's list, or it had
\* left the window at a later call of that identity
SlotHeldOrAgedOut(i) ==
    LET identifier == ClientId(inv[i].args.authToken)
        t == calls[inv[i].gate].t
    IN  \/ \E k \in DOMAIN TimesOf(requests, identifier) :
              TimesOf(requests, identifier)[k] = t
        \/ t < LastCallTime(identifier) - windowMs

\* C28: the step by which an invocation that was waiting for the network returns,
\* whatever the outcome, leaves the limiter's map as it was; and the timestamp of
\* an invocation that passed the rate gate is in its identity's list, during
\* the request and after it, until it has aged out of the window.
C28_SlotNotRefunded ==
    [][/\ \A i \in Slots :
             inv[i].pc \in {"awaitFetch", "awaitJson"} /\ inv'[i].pc # inv[i].pc =>
                 requests' = requests
       /\ \A i \in Slots :
             inv'[i].fetches > 0 /\ inv'[i].gate \in DOMAIN calls' =>
                 /\ RateGateResult(i, TRUE)'
                 /\ SlotHeldOrAgedOut(i)']_vars

\* C28 witness: an invocation failed after the rate gate, and its timestamp is
\* still in the list and keeps a later invocation of its identity out.
C28_Witness ==
    \E i \in Slots : \E j \in Slots :
        /\ inv[i].pc = "done"
        /\ inv[i].cause \in {"timeout", "status", "network", "invalidJson"}
        /\ RateGateResult(i, TRUE)
        /\ calls[inv[i].gate].t \in Range(TimesOf(requests, ClientId(inv[i].args.authToken)))
        /\ inv[j].gate > inv[i].gate
        /\ RateGateResult(j, FALSE)
        /\ ClientId(inv[j].args.authToken) = ClientId(inv[i].args.authToken)

\* the step is a call of makeCourtListenerRequest in slot i with a credential
\* that is a non-empty string and not 40 characters in a-f, 0-9
MalformedCredentialStep(i) ==
    /\ inv[i].pc = "idle"
    /\ inv'[i].pc # "idle"
    /\ HasCredential(inv'[i].args.authToken)
    /\ ~(/\ Len(inv'[i].args.authToken.s) = 40
         /\ \A k \in 1..40 : inv'[i].args.authToken.s[k] \in HexChars)

\* C29: a call of makeCourtListenerRequest with a malformed credential returns
\* null at once and leaves the limiter as it was: no isAllowed call is made and
\* no list of any identity changes.
C29_MalformedCredentialFree ==
    [][\A i \in Slots :
          MalformedCredentialStep(i) =>
              /\ inv'[i].pc = "done"
              /\ inv'[i].result = Fulfilled(NullValue)
              /\ requests' = requests
              /\ calls' = calls]_vars

\* C29 witness: two calls with a malformed credential have returned and the
\* limiter's map is still empty.
C29_Witness ==
    /\ \A i \in {1, 2} : /\ inv[i].pc = "done"
                         /\ inv[i].args.authToken = JSString(tokenInvalid)
    /\ requests = <<>>
    /\ calls = <<>>

----------------------------------------------------------------------------
(* Claims about the timer (checked under Spec) *)

\* C30: once an invocation has returned, its timer is not pending any more.
C30_Original ==
    \A i \in Slots : inv[i].pc = "done" => inv[i].timer # "armed"

====
